---------------------------- MODULE Spec2Model ----------------------------
(***************************************************************************)
(* Model of the download providers of the platforms package: ShrutiAPI     *)
(* (two-phase token + stream download with cancellation and cleanup) and   *)
(* xyz / Youtubify (single GET + io.Copy), together with the provider      *)
(* registry and the fallback orchestrator that drives them.                *)
(***************************************************************************)
EXTENDS Integers, Sequences, FiniteSets, TLC

(***************************************************************************)
(* Bounds of the model and constants of the program.                       *)
(***************************************************************************)
\* longest response body, in chunks read from the network
MaxBody == 2
\* longest chain of redirect responses a data-plane server answers with
MaxChain == 11
\* most registrations made in the registry specification
MaxRegs == 3
\* longest body of the byte-level transfer, in full buffers
MaxFull == 2
\* most reads of one transfer that return less than the buffer could take
MaxShort == 2
\* most capability calls made in the capability specification
MaxProbes == 2

\* CheckRedirect: if len(via) >= 10
RedirectCap == 10
\* Register(75, &ShrutiAPIPlatform{...})
PriorityShruti == 75
\* addPlatform(100, PlatformYoutubify, ...)
PriorityYoutubify == 100
\* buf := make([]byte, 16384)
BufSize == 16384
\* client := &http.Client{}: with no CheckRedirect the client stops after 10
\* consecutive requests
DefaultRedirectCap == 10

PlatformShrutiAPI == "ShrutiAPI"
PlatformYoutubify == "xyz"
PlatformYouTube == "YouTube"

\* source platforms a track can come from
Sources == {PlatformYouTube, "Spotify"}
\* the track identifier the calls are about
TrackID == "abc123"
\* the callers that can run an orchestrator call
Procs == {1, 2}

(***************************************************************************)
(* Errors: an error is the chain of messages from the outermost wrapper to *)
(* the innermost cause, as built by fmt.Errorf("...: %w", err).            *)
(***************************************************************************)
NoErr == <<>>
CtxCanceled == "context canceled"
CtxDeadlineExceeded == "context deadline exceeded"
\* net/http's error for an elapsed http.Client.Timeout; its Is method
\* answers true for context.DeadlineExceeded
ClientTimeout == "Client.Timeout exceeded"

ErrorsNew(msg) == <<msg>>
Errorf(msg, err) == <<msg>> \o err

ErrorsIs(err, target) ==
    \E i \in 1..Len(err) :
        \/ err[i] = target
        \/ err[i] = ClientTimeout /\ target = CtxDeadlineExceeded

IsContextErr(err) ==
    ErrorsIs(err, CtxCanceled) \/ ErrorsIs(err, CtxDeadlineExceeded)

(***************************************************************************)
(* File system: a directory from paths to inodes, and inode contents.  A   *)
(* content is the sequence of chunks written.  The body of a response of n *)
(* chunks is n, n-1, ..., 1, so that a content tells whether it is whole.  *)
(***************************************************************************)
Exts == {".mp3", ".mp4"}
FilePath(id, ext) == <<"downloads", id \o ext>>
Paths == {FilePath(TrackID, e) : e \in Exts}
NoPath == <<>>
Inodes == 1..(Cardinality(Paths) + Cardinality(Procs))

Body(n) == [i \in 1..n |-> n - i + 1]
Complete(content) ==
    /\ Len(content) > 0
    /\ \A i \in 1..Len(content) : content[i] = Len(content) - i + 1

VARIABLES
    registry,   \* the ordered provider registry
    lookup,     \* the result of the last CandidatesFor lookup
    dir,        \* downloads directory: path -> inode, 0 when there is no file
    inode,      \* inode -> content
    call,       \* per caller: the state of its orchestrator call
    firstPath,  \* media kind -> path returned by the first successful Download
    xfer,       \* the byte-level transfer of one response body to a file
    probe       \* the capability calls made and what they returned

vars == <<registry, lookup, dir, inode, call, firstPath, xfer, probe>>


(***************************************************************************)
(* File system operations.                                                 *)
(***************************************************************************)
\* os.Stat(path) succeeds
Exists(d, path) == d[path] # 0
\* stat.Size()
Size(d, ino, path) == Len(ino[d[path]])

\* inodes that a directory entry or an open file of some caller refers to
Referenced(d, c) == {d[x] : x \in Paths} \cup {c[q].fd : q \in Procs}
\* an inode nothing refers to any more is released
Collect(d, ino, c) ==
    [i \in Inodes |-> IF i \in Referenced(d, c) THEN ino[i] ELSE <<>>]
FreeInode(d, c) ==
    CHOOSE i \in Inodes :
        /\ i \notin Referenced(d, c)
        /\ \A j \in Inodes : j \notin Referenced(d, c) => i <= j

\* os.Create: open with O_CREATE|O_TRUNC; the file of an existing path is
\* emptied, otherwise a new file is linked at the path
OsCreate(d, ino, c, path) ==
    LET i == IF Exists(d, path) THEN d[path] ELSE FreeInode(d, c)
    IN  [dir |-> [d EXCEPT ![path] = i],
         inode |-> [ino EXCEPT ![i] = <<>>],
         fd |-> i]

\* os.MkdirAll("downloads"): the outcomes, TRUE for success; it cannot fail
\* while the directory holds a file
MkdirAll(d) == IF \E path \in Paths : Exists(d, path) THEN {TRUE} ELSE BOOLEAN

\* os.Remove
OsRemove(d, path) == [d EXCEPT ![path] = 0]

\* the bytes of one chunk placed at the file offset; a gap left by a
\* truncation reads as zeros
WriteAt(content, off, block) ==
    IF off < Len(content) THEN [content EXCEPT ![off + 1] = block]
    ELSE content \o [i \in 1..(off - Len(content)) |-> 0] \o <<block>>

\* outFile.Write(buf[:n])
FileWrite(ino, fd, off, block) == [ino EXCEPT ![fd] = WriteAt(@, off, block)]

(***************************************************************************)
(* Provider descriptors.                                                   *)
(***************************************************************************)
\* a descriptor that claims every source
ShrutiSupportsAll(source) == source \in Sources
ShrutiIsDownloadSupported(source) == source = PlatformYouTube
YoutubifyIsDownloadSupported(source) == source = PlatformYouTube

\* a registered descriptor that is neither of the two downloaders
StubPlatform == "stub"
Platforms == {PlatformYoutubify, PlatformShrutiAPI, StubPlatform}

IsDownloadSupported(platform, source) ==
    CASE platform = PlatformShrutiAPI -> ShrutiIsDownloadSupported(source)
      [] platform = PlatformYoutubify -> YoutubifyIsDownloadSupported(source)
      [] OTHER -> source # PlatformYouTube

(***************************************************************************)
(* Provider registry: entries ordered by priority descending, ties in      *)
(* registration order.                                                     *)
(***************************************************************************)
Register(reg, priority, platform) ==
    LET e == [priority |-> priority, platform |-> platform, order |-> Len(reg) + 1]
        before == {i \in 1..Len(reg) : reg[i].priority >= priority}
        k == Cardinality(before)
    IN  SubSeq(reg, 1, k) \o <<e>> \o SubSeq(reg, k + 1, Len(reg))

RECURSIVE Filter(_, _)
Filter(reg, source) ==
    IF reg = <<>> THEN <<>>
    ELSE (IF IsDownloadSupported(Head(reg).platform, source)
          THEN <<Head(reg)>> ELSE <<>>) \o Filter(Tail(reg), source)

CandidatesFor(reg, source) == Filter(reg, source)

\* the registrations made by the init functions of the two source files, in
\* the order the files are initialised
ShrutiInit(reg) == Register(reg, PriorityShruti, PlatformShrutiAPI)
YoutubifyInit(reg) == Register(reg, PriorityYoutubify, PlatformYoutubify)
InitRegistries == {YoutubifyInit(ShrutiInit(<<>>)), ShrutiInit(YoutubifyInit(<<>>))}

(***************************************************************************)
(* The state of one orchestrator call and of the provider attempt it runs. *)
(***************************************************************************)
NoResp == [err |-> NoErr, status |-> 0, token |-> ""]

IdleCall ==
    [pc |-> "idle",
     video |-> FALSE,        \* track.Video
     source |-> PlatformYouTube,
     cands |-> <<>>,         \* CandidatesFor(track source)
     idx |-> 0,              \* the candidate being tried
     invoked |-> <<>>,       \* the candidates whose Download was invoked
     errs |-> <<>>,          \* the failures collected for the aggregate error
     ctxErr |-> NoErr,       \* ctx.Err(): NoErr until the signal fires
     cancelAt |-> 0,         \* the candidate that was downloading when it fired
     filePath |-> NoPath,    \* the output path of the attempt
     token |-> "",
     tokenReqs |-> 0,        \* control-plane requests sent by the attempt
     streamReqs |-> 0,       \* data-plane request chains started by the attempt
     via |-> 0,              \* requests sent in the current chain
     redirects |-> 0,        \* redirect responses received in the chain
     status |-> 0,           \* status of the last data-plane response
     tokenResp |-> NoResp,   \* the control-plane response received
     body |-> 0,             \* chunks of the response body not yet read
     chunks |-> 0,           \* chunks transferred to the file by the attempt
     fd |-> 0,               \* the inode of the open output file
     off |-> 0,              \* its file offset
     statOk |-> FALSE,       \* os.Stat found the output file, and not empty
     priorPath |-> NoPath,   \* firstPath of the kind when the attempt began
     path |-> NoPath,        \* the returned path
     err |-> NoErr]          \* the returned error

\* the fields of a fresh provider attempt
NewAttempt(c, platform) ==
    [c EXCEPT !.invoked = Append(@, platform),
              !.filePath = NoPath, !.token = "", !.tokenReqs = 0,
              !.streamReqs = 0, !.via = 0, !.redirects = 0, !.status = 0,
              !.tokenResp = NoResp, !.body = 0, !.chunks = 0,
              !.fd = 0, !.off = 0, !.statOk = FALSE,
              !.priorPath = firstPath[c.video],
              !.path = NoPath, !.err = NoErr]

\* a provider's Download returns to the orchestrator; deferred Close calls
\* have released the output file
ProviderReturn(p, c, path, err) ==
    /\ call' = [call EXCEPT ![p] =
                    [c EXCEPT !.pc = "ret", !.path = path, !.err = err,
                              !.fd = 0, !.off = 0]]
    /\ firstPath' = IF err = NoErr /\ firstPath[c.video] = NoPath
                    THEN [firstPath EXCEPT ![c.video] = path]
                    ELSE firstPath
    /\ UNCHANGED <<registry, lookup, xfer, probe>>

Continue(p, c) ==
    /\ call' = [call EXCEPT ![p] = c]
    /\ UNCHANGED <<registry, lookup, firstPath, xfer, probe>>

FsKeep == dir' = dir /\ inode' = Collect(dir, inode, call')
FsRemove(path) ==
    /\ dir' = OsRemove(dir, path)
    /\ inode' = Collect(dir', inode, call')

(***************************************************************************)
(* The network, as the outcomes a request or a read can have.              *)
(***************************************************************************)
\* http.StatusOK
StatusOK == 200
NetErr == ErrorsNew("connection reset")

\* control-plane responses: a transport error, the client timeout, an error
\* status, and a 200 with an empty or a non-empty download_token
TokenResponses ==
    {[err |-> NetErr, status |-> 0, token |-> ""],
     [err |-> ErrorsNew(ClientTimeout), status |-> 0, token |-> ""],
     [err |-> NoErr, status |-> 500, token |-> ""],
     [err |-> NoErr, status |-> StatusOK, token |-> ""],
     [err |-> NoErr, status |-> StatusOK, token |-> "T1"]}

\* data-plane responses: error, timeout, a redirect, an error status, a 200
StreamResponses ==
    {[err |-> NetErr, status |-> 0],
     [err |-> ErrorsNew(ClientTimeout), status |-> 0],
     [err |-> NoErr, status |-> 302],
     [err |-> NoErr, status |-> 500],
     [err |-> NoErr, status |-> StatusOK]}

\* what one Read of a body with `body` chunks left can return: n chunks
\* (0 or 1) and an error; "EOF" is io.EOF
EOF == ErrorsNew("EOF")
ReadResults(body, failures) ==
    {r \in [n : {0, 1}, err : {NoErr, EOF} \cup failures] :
        /\ r.n <= body
        /\ r.err = EOF => r.n = body
        /\ r.err = NoErr => r.n = 1}
\* the errors a blocked ShrutiAPI request or read can end with: the client
\* carries a timeout and the request carries ctx
ShrutiFailures(ctxErr) ==
    {NetErr, ErrorsNew(ClientTimeout)} \cup ({ctxErr} \ {NoErr})

(***************************************************************************)
(* ShrutiAPIPlatform.Download                                              *)
(***************************************************************************)
\* checkDownloadedFile(track.ID): called with the identifier alone, it
\* answers with a file of the downloads directory kept for that identifier,
\* or fails when there is none
CheckDownloadedFile(d, id) ==
    {path \in Paths : Exists(d, path) /\ \E e \in Exts : path = FilePath(id, e)}

\* mediaType/ext and filePath of Download
ShrutiFilePath(id, video) == FilePath(id, IF video THEN ".mp4" ELSE ".mp3")

\* getDownloadToken without its check for an empty token
GetDownloadTokenNoEmptyCheck(resp) ==
    IF resp.err # NoErr
    THEN [token |-> "",
          err |-> IF IsContextErr(resp.err) THEN resp.err
                  ELSE Errorf("api request failed", resp.err)]
    ELSE IF resp.status >= 400
    THEN [token |-> "", err |-> ErrorsNew("api returned status")]
    ELSE [token |-> resp.token, err |-> NoErr]

\* getDownloadToken, from the response of the control-plane request
GetDownloadToken(resp) ==
    IF resp.err # NoErr
    THEN [token |-> "",
          err |-> IF IsContextErr(resp.err) THEN resp.err
                  ELSE Errorf("api request failed", resp.err)]
    ELSE IF resp.status >= 400
    THEN [token |-> "", err |-> ErrorsNew("api returned status")]
    ELSE IF resp.token = ""
    THEN [token |-> "", err |-> ErrorsNew("empty download token received")]
    ELSE [token |-> resp.token, err |-> NoErr]

ErrTooManyRedirects == "too many redirects"

\* CheckRedirect of downloadFile's client, via being the requests made so far
CheckRedirect(via) ==
    IF via >= RedirectCap THEN ErrorsNew(ErrTooManyRedirects) ELSE NoErr

\* a status check that rejects only client errors
ShrutiStatusErrorClientOnly(status) ==
    IF status >= 400 /\ status < 500
    THEN ErrorsNew("unexpected status code") ELSE NoErr

\* a downloadFile that does not look at the status
ShrutiStatusErrorNone(status) == NoErr

\* downloadFile's check of resp.StatusCode
ShrutiStatusError(status) ==
    IF status # StatusOK THEN ErrorsNew("unexpected status code") ELSE NoErr

\* the error downloadFile returns when client.Do fails
DoError(err) ==
    IF IsContextErr(err) THEN err ELSE Errorf("request failed", err)

ErrTokenFailed == "failed to get download token"

\* Download when getDownloadToken failed
TokenFailed(p, c, err) ==
    /\ ProviderReturn(p, c, NoPath, Errorf(ErrTokenFailed, err))
    /\ FsKeep

\* Download when downloadFile failed: os.Remove(filePath), then the error
DownloadFailed(p, c, ino, err) ==
    /\ ProviderReturn(p, c, NoPath, Errorf("download failed", err))
    /\ dir' = OsRemove(dir, c.filePath)
    /\ inode' = Collect(dir', ino, call')

\* cache check and ensureDownloadsDir
ShrutiDownload(p) ==
    LET c == NewAttempt(call[p], PlatformShrutiAPI)
        hits == CheckDownloadedFile(dir, TrackID)
    IN  /\ call[p].pc = "invoke"
        /\ call[p].cands[call[p].idx].platform = PlatformShrutiAPI
        /\ IF hits # {}
           THEN \E path \in hits : ProviderReturn(p, c, path, NoErr)
           ELSE \E dirOk \in MkdirAll(dir) :
                   IF dirOk
                   THEN Continue(p, [c EXCEPT !.pc = "sh_token",
                                   !.filePath = ShrutiFilePath(TrackID, c.video)])
                   ELSE ProviderReturn(p, c, NoPath,
                            Errorf("failed to create downloads directory",
                                   ErrorsNew("mkdir")))
        /\ FsKeep

\* getDownloadToken sends the control-plane request, unless ctx is done
TokenSend(p) ==
    LET c == call[p]
    IN  /\ c.pc = "sh_token"
        /\ IF c.ctxErr # NoErr
           THEN TokenFailed(p, c,
                    GetDownloadToken([err |-> c.ctxErr, status |-> 0, token |-> ""]).err)
           ELSE /\ Continue(p, [c EXCEPT !.pc = "sh_token_wait", !.tokenReqs = @ + 1])
                /\ FsKeep

\* a Download that asks for the token a second time when the first request
\* failed
TokenRecvRetry(p) ==
    LET c == call[p]
    IN  /\ c.pc = "sh_token_wait"
        /\ \E resp \in IF c.ctxErr # NoErr
                       THEN {[err |-> c.ctxErr, status |-> 0, token |-> ""]}
                       ELSE TokenResponses :
              LET r == GetDownloadToken(resp)
                  c1 == [c EXCEPT !.tokenResp = resp]
              IN  IF r.err # NoErr /\ c.tokenReqs < 2
                  THEN Continue(p, [c1 EXCEPT !.pc = "sh_token"]) /\ FsKeep
                  ELSE IF r.err # NoErr
                  THEN TokenFailed(p, c1, r.err)
                  ELSE /\ Continue(p, [c1 EXCEPT !.pc = "sh_stream", !.token = r.token])
                       /\ FsKeep

\* the control-plane request returns
TokenRecv(p) ==
    LET c == call[p]
    IN  /\ c.pc = "sh_token_wait"
        /\ \E resp \in IF c.ctxErr # NoErr
                       THEN {[err |-> c.ctxErr, status |-> 0, token |-> ""]}
                       ELSE TokenResponses :
              LET r == GetDownloadToken(resp)
                  c1 == [c EXCEPT !.tokenResp = resp]
              IN  IF r.err # NoErr
                  THEN TokenFailed(p, c1, r.err)
                  ELSE /\ Continue(p, [c1 EXCEPT !.pc = "sh_stream", !.token = r.token])
                       /\ FsKeep

\* downloadFile sends the data-plane request, or the request a redirect
\* asked for, unless ctx is done
StreamSend(p) ==
    LET c == call[p]
    IN  /\ c.pc = "sh_stream"
        /\ IF c.ctxErr # NoErr
           THEN DownloadFailed(p, c, inode, DoError(c.ctxErr))
           ELSE /\ Continue(p, [c EXCEPT !.pc = "sh_stream_wait",
                                   !.via = @ + 1,
                                   !.streamReqs = IF c.via = 0 THEN @ + 1 ELSE @])
                /\ FsKeep

\* a data-plane response arrives: redirect, failure, error status, or 200
\* followed by os.Create(filePath)
StreamRecv(p) ==
    LET c0 == call[p]
    IN  /\ c0.pc = "sh_stream_wait"
        /\ \E resp \in IF c0.ctxErr # NoErr
                       THEN {[err |-> c0.ctxErr, status |-> 0]}
                       ELSE StreamResponses :
              LET c == [c0 EXCEPT !.status = resp.status,
                                  !.redirects = IF resp.status = 302 THEN @ + 1 ELSE @]
              IN  IF resp.err # NoErr
                  THEN DownloadFailed(p, c, inode, DoError(resp.err))
                  ELSE IF resp.status = 302
                  THEN /\ c.via <= MaxChain
                       /\ IF CheckRedirect(c.via) # NoErr
                          THEN DownloadFailed(p, c, inode, DoError(CheckRedirect(c.via)))
                          ELSE Continue(p, [c EXCEPT !.pc = "sh_stream"]) /\ FsKeep
                  ELSE IF ShrutiStatusError(resp.status) # NoErr
                  THEN DownloadFailed(p, c, inode, ShrutiStatusError(resp.status))
                  ELSE \E created \in BOOLEAN, n \in 0..MaxBody :
                          IF ~created
                          THEN /\ n = 0
                               /\ DownloadFailed(p, c, inode,
                                    Errorf("failed to create file", ErrorsNew("open")))
                          ELSE LET f == OsCreate(dir, inode, call, c.filePath)
                               IN  /\ Continue(p, [c EXCEPT !.pc = "sh_loop", !.body = n,
                                                      !.fd = f.fd, !.off = 0])
                                   /\ dir' = f.dir
                                   /\ inode' = Collect(dir', f.inode, call')

\* a chunk loop that reads without looking at ctx.Done()
LoopCheckNoSelect(p) ==
    LET c == call[p]
    IN  /\ c.pc = "sh_loop"
        /\ Continue(p, [c EXCEPT !.pc = "sh_read"]) /\ FsKeep

\* top of the chunk loop: the select on ctx.Done()
LoopCheck(p) ==
    LET c == call[p]
    IN  /\ c.pc = "sh_loop"
        /\ IF c.ctxErr # NoErr
           THEN DownloadFailed(p, c, inode, c.ctxErr)
           ELSE Continue(p, [c EXCEPT !.pc = "sh_read"]) /\ FsKeep

\* a chunk loop that end of stream does not leave
LoopReadNoBreak(p) ==
    LET c == call[p]
    IN  /\ c.pc = "sh_read"
        /\ \E r \in ReadResults(c.body, ShrutiFailures(c.ctxErr)), written \in BOOLEAN :
              LET ino == IF r.n > 0 /\ written
                         THEN FileWrite(inode, c.fd, c.off, c.body)
                         ELSE inode
                  c1 == IF r.n > 0 /\ written
                        THEN [c EXCEPT !.off = @ + 1, !.body = @ - 1, !.chunks = @ + 1]
                        ELSE c
              IN  IF r.n > 0 /\ ~written
                  THEN DownloadFailed(p, c, inode,
                           Errorf("write error", ErrorsNew("no space left on device")))
                  ELSE /\ (r.n = 0 => written)
                       /\ IF r.err # NoErr /\ r.err # EOF
                          THEN DownloadFailed(p, c1, ino, Errorf("read error", r.err))
                          ELSE /\ Continue(p, [c1 EXCEPT !.pc = "sh_loop"])
                               /\ dir' = dir
                               /\ inode' = Collect(dir, ino, call')

\* resp.Body.Read returns; the chunk read is written, then the error, if
\* any, ends the loop
LoopRead(p) ==
    LET c == call[p]
    IN  /\ c.pc = "sh_read"
        /\ \E r \in ReadResults(c.body, ShrutiFailures(c.ctxErr)), written \in BOOLEAN :
              LET ino == IF r.n > 0 /\ written
                         THEN FileWrite(inode, c.fd, c.off, c.body)
                         ELSE inode
                  c1 == IF r.n > 0 /\ written
                        THEN [c EXCEPT !.off = @ + 1, !.body = @ - 1, !.chunks = @ + 1]
                        ELSE c
              IN  IF r.n > 0 /\ ~written
                  THEN DownloadFailed(p, c, inode,
                           Errorf("write error", ErrorsNew("no space left on device")))
                  ELSE /\ (r.n = 0 => written)
                       /\ IF r.err = EOF
                          THEN /\ Continue(p, [c1 EXCEPT !.pc = "sh_verify",
                                                  !.fd = 0, !.off = 0])
                               /\ dir' = dir
                               /\ inode' = Collect(dir, ino, call')
                          ELSE IF r.err # NoErr
                          THEN DownloadFailed(p, c1, ino, Errorf("read error", r.err))
                          ELSE /\ Continue(p, [c1 EXCEPT !.pc = "sh_loop"])
                               /\ dir' = dir
                               /\ inode' = Collect(dir, ino, call')

\* Download's os.Stat(filePath) after downloadFile returned nil: whether the
\* file exists and has content
VerifyStat(p) ==
    LET c == call[p]
        ok == IF Exists(dir, c.filePath) THEN Size(dir, inode, c.filePath) > 0
              ELSE FALSE
    IN  /\ c.pc = "sh_verify"
        /\ Continue(p, [c EXCEPT !.pc = "sh_verified", !.statOk = ok])
        /\ FsKeep

\* Download acts on what os.Stat answered: os.Remove and the error, or the
\* path
Verify(p) ==
    LET c == call[p]
    IN  /\ c.pc = "sh_verified"
        /\ IF ~c.statOk
           THEN /\ ProviderReturn(p, c, NoPath,
                      ErrorsNew("downloaded file is empty or missing"))
                /\ dir' = OsRemove(dir, c.filePath)
                /\ inode' = Collect(dir', inode, call')
           ELSE ProviderReturn(p, c, c.filePath, NoErr) /\ FsKeep

(***************************************************************************)
(* YoutubifyPlatform.Download, which is downloadAudio(track.ID)            *)
(***************************************************************************)
YoutubifyFilePath(id) == FilePath(id, ".mp3")

\* downloadAudio's check of resp.StatusCode
YoutubifyStatusError(status) ==
    IF status # StatusOK THEN ErrorsNew("API returned status") ELSE NoErr

\* the responses of client.Get: the client has no timeout and no context
GetResponses == {r \in StreamResponses : r.err # ErrorsNew(ClientTimeout)}

\* the redirect policy of a client without CheckRedirect, via being the
\* requests made so far
DefaultCheckRedirect(via) ==
    IF via >= DefaultRedirectCap THEN ErrorsNew("stopped after 10 redirects")
    ELSE NoErr

\* os.Stat, os.MkdirAll, then client.Get is sent
YoutubifyDownload(p) ==
    LET c == NewAttempt(call[p], PlatformYoutubify)
        filepath == YoutubifyFilePath(TrackID)
    IN  /\ call[p].pc = "invoke"
        /\ call[p].cands[call[p].idx].platform = PlatformYoutubify
        /\ IF Exists(dir, filepath)
           THEN ProviderReturn(p, c, filepath, NoErr)
           ELSE \E dirOk \in MkdirAll(dir) :
                   IF dirOk
                   THEN Continue(p, [c EXCEPT !.pc = "yt_get", !.filePath = filepath,
                                        !.streamReqs = @ + 1, !.via = @ + 1])
                   ELSE ProviderReturn(p, c, NoPath, ErrorsNew("mkdir"))
        /\ FsKeep

\* a response to client.Get arrives: a redirect, which the client follows
\* with a further request, a failure, an error status, or a 200 followed by
\* os.Create(filepath)
GetRecv(p) ==
    LET c0 == call[p]
    IN  /\ c0.pc = "yt_get"
        /\ \E resp \in GetResponses :
              LET c == [c0 EXCEPT !.status = resp.status,
                                  !.redirects = IF resp.status = 302 THEN @ + 1 ELSE @]
              IN  IF resp.err # NoErr
                  THEN ProviderReturn(p, c, NoPath, resp.err) /\ FsKeep
                  ELSE IF resp.status = 302
                  THEN /\ c.via <= MaxChain
                       /\ IF DefaultCheckRedirect(c.via) # NoErr
                          THEN ProviderReturn(p, c, NoPath, DefaultCheckRedirect(c.via))
                          ELSE Continue(p, [c EXCEPT !.via = @ + 1])
                       /\ FsKeep
                  ELSE IF YoutubifyStatusError(resp.status) # NoErr
                  THEN ProviderReturn(p, c, NoPath, YoutubifyStatusError(resp.status))
                       /\ FsKeep
                  ELSE \E created \in BOOLEAN, n \in 0..MaxBody :
                          IF ~created
                          THEN /\ n = 0
                               /\ ProviderReturn(p, c, NoPath, ErrorsNew("open"))
                               /\ FsKeep
                          ELSE LET f == OsCreate(dir, inode, call, c.filePath)
                               IN  /\ Continue(p, [c EXCEPT !.pc = "yt_copy", !.body = n,
                                                      !.fd = f.fd, !.off = 0])
                                   /\ dir' = f.dir
                                   /\ inode' = Collect(dir', f.inode, call')

\* one round of io.Copy(out, resp.Body): a read, the write of what was read,
\* and the return on end of stream or on an error
Copy(p) ==
    LET c == call[p]
    IN  /\ c.pc = "yt_copy"
        /\ \E r \in ReadResults(c.body, {NetErr}), written \in BOOLEAN :
              LET ino == IF r.n > 0 /\ written
                         THEN FileWrite(inode, c.fd, c.off, c.body)
                         ELSE inode
                  c1 == IF r.n > 0 /\ written
                        THEN [c EXCEPT !.off = @ + 1, !.body = @ - 1, !.chunks = @ + 1]
                        ELSE c
              IN  /\ (r.n = 0 => written)
                  /\ IF r.n > 0 /\ ~written
                     THEN ProviderReturn(p, c, NoPath, ErrorsNew("no space left on device"))
                     ELSE IF r.err = EOF
                     THEN ProviderReturn(p, c1, c.filePath, NoErr)
                     ELSE IF r.err # NoErr
                     THEN ProviderReturn(p, c1, NoPath, r.err)
                     ELSE Continue(p, c1)
                  /\ dir' = dir
                  /\ inode' = Collect(dir, ino, call')

(***************************************************************************)
(* Download orchestrator: candidates in registry order, first success      *)
(* wins, a cancellation ends the chain, any other failure falls through.   *)
(***************************************************************************)
ErrNoProvider == ErrorsNew("no provider available")
ErrAllFailed == ErrorsNew("all providers failed")

\* Download(ctx, track) begins: the candidates for the track's source
OrchDownload(p, video, source) ==
    LET cands == CandidatesFor(registry, source)
        c == [IdleCall EXCEPT !.video = video, !.source = source, !.cands = cands]
    IN  /\ call[p].pc = "idle"
        /\ IF cands = <<>>
           THEN Continue(p, [c EXCEPT !.pc = "done", !.err = ErrNoProvider])
           ELSE Continue(p, [c EXCEPT !.pc = "invoke", !.idx = 1])
        /\ FsKeep

\* an orchestrator that goes on to the next candidate after a success
OrchHandleNoShortCircuit(p) ==
    LET c == call[p]
    IN  /\ c.pc = "ret"
        /\ IF IsContextErr(c.err) \/ (c.err = NoErr /\ c.idx = Len(c.cands))
           THEN Continue(p, [c EXCEPT !.pc = "done"])
           ELSE IF c.idx = Len(c.cands)
           THEN Continue(p, [c EXCEPT !.pc = "done", !.errs = Append(@, c.err),
                                !.path = NoPath, !.err = ErrAllFailed])
           ELSE Continue(p, [c EXCEPT !.pc = "invoke",
                                !.errs = IF c.err = NoErr THEN @ ELSE Append(@, c.err),
                                !.idx = @ + 1])
        /\ FsKeep

\* the candidate's Download has returned
OrchHandle(p) ==
    LET c == call[p]
    IN  /\ c.pc = "ret"
        /\ IF c.err = NoErr \/ IsContextErr(c.err)
           THEN Continue(p, [c EXCEPT !.pc = "done"])
           ELSE IF c.idx = Len(c.cands)
           THEN Continue(p, [c EXCEPT !.pc = "done", !.errs = Append(@, c.err),
                                !.path = NoPath, !.err = ErrAllFailed])
           ELSE Continue(p, [c EXCEPT !.pc = "invoke", !.errs = Append(@, c.err),
                                !.idx = @ + 1])
        /\ FsKeep

\* the caller has taken the result
Finish(p) ==
    /\ call[p].pc = "done"
    /\ Continue(p, IdleCall)
    /\ FsKeep

\* the positions in which a provider is blocked in, or about to start, a
\* network request or a chunk transfer
TransferPcs ==
    {"sh_token", "sh_token_wait", "sh_stream", "sh_stream_wait", "sh_loop",
     "sh_read", "yt_get", "yt_copy"}

\* the caller cancels ctx, or its deadline elapses
Cancel(p, e) ==
    LET c == call[p]
    IN  /\ c.pc \notin {"idle", "done"}
        /\ c.ctxErr = NoErr
        /\ Continue(p, [c EXCEPT !.ctxErr = ErrorsNew(e),
                           !.cancelAt = IF c.pc \in TransferPcs THEN c.idx ELSE 0])
        /\ FsKeep

(***************************************************************************)
(* downloadFile's chunk loop at the level of bytes.  The body is `total`   *)
(* bytes, numbered from 0; the file is the sequence of runs of body bytes  *)
(* written to it, a run being the offset of its first byte in the body and *)
(* its length, and adjacent runs that continue each other being one run.   *)
(***************************************************************************)
Min(a, b) == IF a < b THEN a ELSE b

IdleXfer ==
    [pc |-> "idle",
     total |-> 0,      \* length of the response body
     left |-> 0,       \* bytes of the body not yet read
     file |-> <<>>,    \* the runs written to the output file
     reads |-> 0,      \* Read calls that returned
     shorts |-> 0,     \* of them, the ones that returned less than they could
     lastN |-> 0,      \* bytes the last Read returned
     path |-> NoPath,
     err |-> NoErr]

\* the body lengths tried: below, at and above the multiples of the buffer
BodySizes ==
    {k * BufSize + r : k \in 0..MaxFull, r \in {0, 1, BufSize - 1}}

\* the numbers of bytes one Read into buf can return with `left` bytes left
\* of the body
ReadSizes(left, shorts) ==
    {n \in {1, BufSize - 1, BufSize, left} :
        /\ 1 <= n /\ n <= Min(left, BufSize)
        /\ n < Min(left, BufSize) => shorts < MaxShort}

RunsSize(file) ==
    LET RECURSIVE Sum(_)
        Sum(i) == IF i = 0 THEN 0 ELSE file[i].len + Sum(i - 1)
    IN  Sum(Len(file))

\* a Write of the whole buffer, whatever Read returned
ByteWriteWholeBuf(file, from, n) ==
    IF file # <<>> /\ file[Len(file)].from + file[Len(file)].len = from
    THEN [file EXCEPT ![Len(file)].len = @ + BufSize]
    ELSE Append(file, [from |-> from, len |-> BufSize])

\* outFile.Write(buf[:n]), buf holding the n body bytes from offset `from`
ByteWrite(file, from, n) ==
    IF file # <<>> /\ file[Len(file)].from + file[Len(file)].len = from
    THEN [file EXCEPT ![Len(file)].len = @ + n]
    ELSE Append(file, [from |-> from, len |-> n])

\* one iteration of the loop with the signal not fired: Read returns n bytes
\* and nil or io.EOF, the bytes are written, io.EOF leaves the loop
ChunkRead ==
    /\ xfer.pc = "loop"
    /\ \E n \in ReadSizes(xfer.left, xfer.shorts) \cup {0}, err \in {NoErr, EOF} :
          /\ err = EOF => n = xfer.left
          /\ err = NoErr => n > 0
          /\ xfer' = [xfer EXCEPT
                !.pc = IF err = EOF THEN "verify" ELSE "loop",
                !.left = @ - n,
                !.file = IF n > 0 THEN ByteWrite(@, xfer.total - xfer.left, n) ELSE @,
                !.reads = @ + 1,
                !.shorts = IF 0 < n /\ n < Min(xfer.left, BufSize) THEN @ + 1 ELSE @,
                !.lastN = n]
    /\ UNCHANGED <<registry, lookup, dir, inode, call, firstPath, probe>>

\* Download's verification of the file downloadFile has written
ChunkVerify ==
    /\ xfer.pc = "verify"
    /\ xfer' = IF RunsSize(xfer.file) = 0
               THEN [xfer EXCEPT !.pc = "done", !.file = <<>>,
                        !.err = ErrorsNew("downloaded file is empty or missing")]
               ELSE [xfer EXCEPT !.pc = "done",
                        !.path = ShrutiFilePath(TrackID, FALSE)]
    /\ UNCHANGED <<registry, lookup, dir, inode, call, firstPath, probe>>

(***************************************************************************)
(* The capability methods of the two descriptors.                          *)
(***************************************************************************)
Queries == {"", "https://youtu.be/abc123", "some song"}

\* a descriptor that takes every non-empty query for one of its own
YoutubifyIsValidNonEmpty(query) == query # ""

ShrutiIsValid(query) == FALSE
YoutubifyIsValid(query) == FALSE

ShrutiGetTracks(query, video) ==
    [tracks |-> <<>>, err |-> ErrorsNew("shrutiapi is a download-only platform")]
YoutubifyGetTracks(query) ==
    [tracks |-> <<>>, err |-> ErrorsNew("Youtubify is a direct download platform")]

NoProbe ==
    [op |-> "", platform |-> "", query |-> "", video |-> FALSE, source |-> "",
     ok |-> FALSE, tracks |-> <<>>, err |-> NoErr]

\* p.IsValid(query)
CallIsValid(platform, query) ==
    /\ Len(probe) < MaxProbes
    /\ probe' = Append(probe,
          [NoProbe EXCEPT !.op = "IsValid", !.platform = platform, !.query = query,
              !.ok = IF platform = PlatformShrutiAPI THEN ShrutiIsValid(query)
                     ELSE YoutubifyIsValid(query)])
    /\ UNCHANGED <<registry, lookup, dir, inode, call, firstPath, xfer>>

\* p.GetTracks(query, video); the xyz method takes the query alone
CallGetTracks(platform, query, video) ==
    LET r == IF platform = PlatformShrutiAPI THEN ShrutiGetTracks(query, video)
             ELSE YoutubifyGetTracks(query)
    IN  /\ Len(probe) < MaxProbes
        /\ platform = PlatformYoutubify => ~video
        /\ probe' = Append(probe,
              [NoProbe EXCEPT !.op = "GetTracks", !.platform = platform,
                  !.query = query, !.video = video,
                  !.ok = r.err = NoErr, !.tracks = r.tracks, !.err = r.err])
        /\ UNCHANGED <<registry, lookup, dir, inode, call, firstPath, xfer>>

\* p.IsDownloadSupported(source)
CallIsDownloadSupported(platform, source) ==
    /\ Len(probe) < MaxProbes
    /\ probe' = Append(probe,
          [NoProbe EXCEPT !.op = "IsDownloadSupported", !.platform = platform,
              !.source = source,
              !.ok = IF platform = PlatformShrutiAPI
                     THEN ShrutiIsDownloadSupported(source)
                     ELSE YoutubifyIsDownloadSupported(source)])
    /\ UNCHANGED <<registry, lookup, dir, inode, call, firstPath, xfer>>

(***************************************************************************)
(* Specification of the download calls, run one at a time.                 *)
(***************************************************************************)
NoLookup == [done |-> FALSE, source |-> PlatformYouTube, result |-> <<>>]

Init ==
    /\ registry \in InitRegistries
    /\ lookup = NoLookup
    /\ dir = [x \in Paths |-> 0]
    /\ inode = [i \in Inodes |-> <<>>]
    /\ call = [p \in Procs |-> IdleCall]
    /\ firstPath = [v \in BOOLEAN |-> NoPath]
    /\ xfer = IdleXfer
    /\ probe = <<>>

Step(p) ==
    \/ \E video \in BOOLEAN, source \in Sources : OrchDownload(p, video, source)
    \/ ShrutiDownload(p)
    \/ TokenSend(p)
    \/ TokenRecv(p)
    \/ StreamSend(p)
    \/ StreamRecv(p)
    \/ LoopCheck(p)
    \/ LoopRead(p)
    \/ VerifyStat(p)
    \/ Verify(p)
    \/ YoutubifyDownload(p)
    \/ GetRecv(p)
    \/ Copy(p)
    \/ OrchHandle(p)
    \/ Finish(p)
    \/ \E e \in {CtxCanceled, CtxDeadlineExceeded} : Cancel(p, e)

\* the callers of this specification: one call at a time
SeqProcs == {1}

Next == \E p \in SeqProcs : Step(p)

Spec == Init /\ [][Next]_vars

\* the steps of a provider's Download: its own code, and the answers of the
\* network and of the file system it waits for
Attempt(p) ==
    \/ ShrutiDownload(p)
    \/ TokenSend(p)
    \/ TokenRecv(p)
    \/ StreamSend(p)
    \/ StreamRecv(p)
    \/ LoopCheck(p)
    \/ LoopRead(p)
    \/ VerifyStat(p)
    \/ Verify(p)
    \/ YoutubifyDownload(p)
    \/ GetRecv(p)
    \/ Copy(p)

\* the same calls, where a Download that can take a step eventually takes
\* one: its goroutine is scheduled, and every request and every read it
\* waits for returns
LiveSpec == Init /\ [][Next]_vars /\ \A p \in SeqProcs : WF_vars(Attempt(p))

(***************************************************************************)
(* Specification of two callers that each make one call for the same       *)
(* track at the same time.  The callers do not cancel, and the servers     *)
(* answer every request: the token endpoint with a token or an empty one,  *)
(* the stream endpoints with a 200 and a body or with a 500.               *)
(***************************************************************************)
\* the failures that these answers lead to
ConcErrs ==
    {NoErr, ErrAllFailed,
     ErrorsNew("API returned status"),
     Errorf(ErrTokenFailed, ErrorsNew("empty download token received")),
     Errorf("download failed", ErrorsNew("unexpected status code")),
     ErrorsNew("downloaded file is empty or missing")}

ConcEnv == \A p \in Procs : call[p].redirects = 0 /\ call[p].err \in ConcErrs

ConcStep(p) ==
    \/ (\E video \in BOOLEAN : OrchDownload(p, video, PlatformYouTube)) /\ ConcEnv'
    \/ ShrutiDownload(p) /\ ConcEnv'
    \/ TokenSend(p) /\ ConcEnv'
    \/ TokenRecv(p) /\ ConcEnv'
    \/ StreamSend(p) /\ ConcEnv'
    \/ StreamRecv(p) /\ ConcEnv'
    \/ LoopCheck(p) /\ ConcEnv'
    \/ LoopRead(p) /\ ConcEnv'
    \/ VerifyStat(p) /\ ConcEnv'
    \/ Verify(p) /\ ConcEnv'
    \/ YoutubifyDownload(p) /\ ConcEnv'
    \/ GetRecv(p) /\ ConcEnv'
    \/ Copy(p) /\ ConcEnv'
    \/ OrchHandle(p) /\ ConcEnv'

ConcNext == \E p \in Procs : ConcStep(p)

ConcSpec == Init /\ [][ConcNext]_vars

(***************************************************************************)
(* Specification of the registry: registrations, then lookups.             *)
(***************************************************************************)
RegInit ==
    /\ registry = <<>>
    /\ lookup = NoLookup
    /\ dir = [x \in Paths |-> 0]
    /\ inode = [i \in Inodes |-> <<>>]
    /\ call = [p \in Procs |-> IdleCall]
    /\ firstPath = [v \in BOOLEAN |-> NoPath]
    /\ xfer = IdleXfer
    /\ probe = <<>>

RegRegister(priority, platform) ==
    /\ ~lookup.done
    /\ Len(registry) < MaxRegs
    /\ registry' = Register(registry, priority, platform)
    /\ UNCHANGED <<lookup, dir, inode, call, firstPath, xfer, probe>>

RegLookup(source) ==
    /\ lookup' = [done |-> TRUE, source |-> source,
                  result |-> CandidatesFor(registry, source)]
    /\ UNCHANGED <<registry, dir, inode, call, firstPath, xfer, probe>>

RegNext ==
    \/ \E priority \in {PriorityShruti, PriorityYoutubify}, platform \in Platforms :
          RegRegister(priority, platform)
    \/ \E source \in Sources : RegLookup(source)

RegSpec == RegInit /\ [][RegNext]_vars

(***************************************************************************)
(* Specification of the byte-level transfer of one response body.          *)
(***************************************************************************)
ChunkInit ==
    /\ registry \in InitRegistries
    /\ lookup = NoLookup
    /\ dir = [x \in Paths |-> 0]
    /\ inode = [i \in Inodes |-> <<>>]
    /\ call = [p \in Procs |-> IdleCall]
    /\ firstPath = [v \in BOOLEAN |-> NoPath]
    /\ \E total \in BodySizes :
          xfer = [IdleXfer EXCEPT !.pc = "loop", !.total = total, !.left = total]
    /\ probe = <<>>

ChunkNext == ChunkRead \/ ChunkVerify

ChunkSpec == ChunkInit /\ [][ChunkNext]_vars

(***************************************************************************)
(* Specification of the capability calls on the two descriptors.           *)
(***************************************************************************)
Descriptors == {PlatformShrutiAPI, PlatformYoutubify}

CapNext ==
    \/ \E platform \in Descriptors, query \in Queries : CallIsValid(platform, query)
    \/ \E platform \in Descriptors, query \in Queries, video \in BOOLEAN :
          CallGetTracks(platform, query, video)
    \/ \E platform \in Descriptors, source \in Sources :
          CallIsDownloadSupported(platform, source)

CapSpec == Init /\ [][CapNext]_vars

(***************************************************************************)
(* Properties.                                                             *)
(***************************************************************************)
\* the provider whose Download the call is running or has last run
Current(c) == c.cands[c.idx].platform
\* the cache file an attempt of that provider writes
TargetPath(c) ==
    IF Current(c) = PlatformShrutiAPI THEN ShrutiFilePath(TrackID, c.video)
    ELSE YoutubifyFilePath(TrackID)
\* a provider's Download has just returned
Returned(c) == c.pc = "ret"
Failed(c) == Returned(c) /\ c.err # NoErr
Succeeded(c) == Returned(c) /\ c.err = NoErr
\* requests the attempt has sent
Sent(c) == c.tokenReqs + c.via

\* C1: whenever a provider's Download has returned a failure, the cache
\* file the attempt writes to does not exist.
C1_NoPartialFile ==
    \A p \in Procs : Failed(call[p]) => ~Exists(dir, TargetPath(call[p]))

\* C2: every Download that returns success returns the path of a file that
\* exists, is not empty and holds a complete payload.
C2_SuccessIsComplete ==
    \A p \in Procs :
        Succeeded(call[p]) =>
            /\ call[p].path \in Paths
            /\ Exists(dir, call[p].path)
            /\ Complete(inode[dir[call[p].path]])

\* C3: a Download for a track and media kind that began after a Download
\* for the same track and kind had succeeded sends no request and returns
\* the path the first one returned.
C3_Idempotent ==
    \A p \in Procs :
        Returned(call[p]) /\ call[p].priorPath # NoPath =>
            /\ Sent(call[p]) = 0
            /\ call[p].err = NoErr
            /\ call[p].path = call[p].priorPath

\* C4: when the signal fired while candidate i was in its token or
\* streaming phase, no later candidate is invoked and the call ends with
\* the cancellation failure.
C4_CancellationPrecedence ==
    \A p \in Procs :
        call[p].cancelAt > 0 =>
            /\ Len(call[p].invoked) <= call[p].cancelAt
            /\ call[p].pc = "done" => IsContextErr(call[p].err)

\* C5: once the signal has fired, an attempt sends no further request, and
\* an attempt about to start a request or a chunk transfer returns a
\* failure instead.
StartPcs == {"sh_token", "sh_stream", "sh_loop", "yt_copy"}
C5_BoundToSignal ==
    [][\A p \in Procs :
          call[p].ctxErr # NoErr /\ call'[p] # call[p] =>
              /\ Sent(call'[p]) <= (IF call'[p].invoked = call[p].invoked
                                    THEN Sent(call[p]) ELSE 0)
              /\ call[p].pc \in StartPcs =>
                    /\ Failed(call'[p])
                    /\ call'[p].chunks = call[p].chunks]_vars

\* the statements of C1 and C5 for the ShrutiAPI attempts alone
ShrutiNoPartialFile ==
    \A p \in Procs :
        Failed(call[p]) /\ Current(call[p]) = PlatformShrutiAPI =>
            ~Exists(dir, TargetPath(call[p]))
ShrutiPcs ==
    {"sh_token", "sh_token_wait", "sh_stream", "sh_stream_wait", "sh_loop",
     "sh_read", "sh_verify", "sh_verified"}
ShrutiBoundToSignal ==
    [][\A p \in Procs :
          /\ call[p].ctxErr # NoErr /\ call'[p] # call[p]
          /\ call[p].pc \in ShrutiPcs
          => /\ Sent(call'[p]) <= Sent(call[p])
             /\ call[p].pc \in StartPcs =>
                   /\ Failed(call'[p])
                   /\ call'[p].chunks = call[p].chunks]_vars

\* the names of the first n candidates of a call
CandNames(c, n) == [i \in 1..n |-> c.cands[i].platform]
InOrder(c) ==
    /\ Len(c.invoked) <= Len(c.cands)
    /\ c.invoked = CandNames(c, Len(c.invoked))

\* the control-plane failures of Scenario B: the client timeout, a
\* non-success status, an empty token
TokenFailure(r) ==
    /\ r \in TokenResponses
    /\ \/ r.err = ErrorsNew(ClientTimeout)
       \/ r.err = NoErr /\ r.status # StatusOK
       \/ r.err = NoErr /\ r.token = ""

\* C6: an attempt whose control-plane request ended in an empty token, a
\* non-success status or a timeout has returned a failure that names the
\* token phase, has sent no data-plane request and has created no file.
C6_TokenFailure ==
    \A p \in Procs :
        /\ call[p].pc \in ShrutiPcs \cup {"ret"}
        /\ TokenFailure(call[p].tokenResp)
        => /\ Failed(call[p])
           /\ Head(call[p].err) = ErrTokenFailed
           /\ call[p].streamReqs = 0 /\ call[p].via = 0
           /\ call[p].chunks = 0 /\ call[p].fd = 0
           /\ \A path \in Paths : ~Exists(dir, path)

C6_Witness ==
    \E p \in Procs :
        /\ Failed(call[p])
        /\ call[p].tokenResp = [err |-> NoErr, status |-> StatusOK, token |-> ""]
        /\ call[p].err = <<ErrTokenFailed, "empty download token received">>
        /\ call[p].tokenReqs = 1

\* C7: candidates are invoked once each in registry order; a candidate
\* answered with status 500 fails with a non-cancellation error; after a
\* non-cancellation failure the next candidate is invoked, and after the
\* last one the call fails with the aggregate error, every candidate having
\* been invoked and having failed.
C7_FallbackCompleteness ==
    [][\A p \in Procs :
          LET c == call[p]
              d == call'[p]
          IN  /\ InOrder(c)
              /\ Returned(c) /\ c.status = 500 => Failed(c) /\ ~IsContextErr(c.err)
              /\ c.pc = "done" /\ c.err = ErrAllFailed =>
                    /\ c.invoked = CandNames(c, Len(c.cands))
                    /\ Len(c.errs) = Len(c.cands)
                    /\ \A i \in 1..Len(c.errs) : ~IsContextErr(c.errs[i])
              /\ Failed(c) /\ ~IsContextErr(c.err) /\ d.pc # "ret" =>
                    IF c.idx < Len(c.cands)
                    THEN d.pc = "invoke" /\ d.idx = c.idx + 1 /\ d.invoked = c.invoked
                    ELSE d.pc = "done" /\ d.err = ErrAllFailed]_vars

C7_Witness ==
    \E p \in Procs :
        /\ call[p].pc = "done"
        /\ call[p].err = ErrAllFailed
        /\ call[p].invoked = <<PlatformYoutubify, PlatformShrutiAPI>>
        /\ call[p].errs = <<ErrorsNew("API returned status"),
                            <<"download failed", "unexpected status code">> >>
        /\ call[p].status = 500

\* C8: when a candidate's Download returns a path without error, the call
\* ends at once with that path; the candidates up to it were invoked once
\* each, in order, and those before it failed with non-cancellation errors.
C8_FirstSuccessWins ==
    [][\A p \in Procs :
          LET c == call[p]
              d == call'[p]
          IN  Succeeded(c) /\ d.pc # "ret" =>
                 /\ d.pc = "done" /\ d.err = NoErr /\ d.path = c.path
                 /\ d.invoked = c.invoked
                 /\ c.invoked = CandNames(c, c.idx)
                 /\ Len(c.errs) = c.idx - 1
                 /\ \A i \in 1..Len(c.errs) : ~IsContextErr(c.errs[i])]_vars

C8_Witness ==
    \E p \in Procs :
        /\ call[p].pc = "done"
        /\ call[p].err = NoErr
        /\ call[p].path = ShrutiFilePath(TrackID, TRUE)
        /\ call[p].invoked = <<PlatformYoutubify, PlatformShrutiAPI>>
        /\ call[p].errs = <<ErrorsNew("API returned status")>>
        /\ ~Exists(dir, YoutubifyFilePath(TrackID))

\* C9: a lookup returns exactly the registered descriptors that support the
\* source, by priority descending, ties in registration order; with the two
\* registrations of the source files it returns xyz then ShrutiAPI for
\* YouTube and nothing for another source.
Entries(reg) == {reg[i] : i \in 1..Len(reg)}
C9_CandidatesFor ==
    lookup.done =>
        LET r == lookup.result
            names == [i \in 1..Len(r) |-> r[i].platform]
        IN  /\ \A i \in 1..Len(r) :
                  /\ r[i] \in Entries(registry)
                  /\ IsDownloadSupported(r[i].platform, lookup.source)
            /\ \A e \in Entries(registry) :
                  IsDownloadSupported(e.platform, lookup.source) =>
                      Cardinality({i \in 1..Len(r) : r[i] = e}) = 1
            /\ \A i, j \in 1..Len(r) :
                  i < j => \/ r[i].priority > r[j].priority
                           \/ /\ r[i].priority = r[j].priority
                              /\ r[i].order < r[j].order
            /\ registry \in InitRegistries =>
                  names = IF lookup.source = PlatformYouTube
                          THEN <<PlatformYoutubify, PlatformShrutiAPI>>
                          ELSE <<>>

C9_Witness ==
    /\ lookup.done
    /\ Len(registry) = 3
    /\ Len(lookup.result) = 2
    /\ lookup.result[1].priority = lookup.result[2].priority
    /\ lookup.result[1].platform = PlatformShrutiAPI
    /\ lookup.result[2].platform = PlatformYoutubify
    /\ lookup.result[1].order < lookup.result[2].order

\* C10: the data-plane request is refused for too many redirects only when
\* the chain has more than RedirectCap redirects, and no chain with more
\* than RedirectCap redirects is followed.
C10_RedirectCap ==
    \A p \in Procs :
        /\ Returned(call[p]) /\ ErrorsIs(call[p].err, ErrTooManyRedirects) =>
              call[p].redirects > RedirectCap
        /\ call[p].redirects > RedirectCap => Failed(call[p])

\* what the client does: the request a redirect asks for is sent only while
\* fewer than RedirectCap requests were made, so the RedirectCap-th redirect
\* of a chain is refused
ShrutiRedirectLimit ==
    \A p \in Procs :
        /\ call[p].via <= RedirectCap
        /\ call[p].redirects <= RedirectCap
        /\ Returned(call[p]) /\ Current(call[p]) = PlatformShrutiAPI =>
              (ErrorsIs(call[p].err, ErrTooManyRedirects)
                  <=> call[p].redirects = RedirectCap)

\* the extension of a media kind: .mp4 for a video track, .mp3 for audio
KindExt(video) == IF video THEN ".mp4" ELSE ".mp3"

\* C12: every Download that returns success returns downloads/{id}.mp3 for
\* an audio track and downloads/{id}.mp4 for a video track, whichever
\* provider ran and whether the file was cached or downloaded.
C12_PathOfKind ==
    \A p \in Procs :
        Succeeded(call[p]) =>
            call[p].path = FilePath(TrackID, KindExt(call[p].video))

\* the same statement for the attempts that downloaded the file themselves
\* through ShrutiAPI
ShrutiMissPathOfKind ==
    \A p \in Procs :
        /\ Succeeded(call[p])
        /\ Current(call[p]) = PlatformShrutiAPI
        /\ call[p].tokenReqs > 0
        => call[p].path = FilePath(TrackID, KindExt(call[p].video))

\* the chain of an error holds one of the two errors of the caller's ctx
HoldsCtxErr(err) ==
    \E i \in 1..Len(err) : err[i] \in {CtxCanceled, CtxDeadlineExceeded}

\* C14: a failure of a provider's Download, and of the call, is recognised
\* as a cancellation only when the caller's signal has fired, so a timeout
\* of the provider's own client with the signal not fired is not one; and a
\* cancellation error stays recognised as one under the provider's wrapping.
C14_FailureClassification ==
    \A p \in Procs :
        LET c == call[p]
        IN  /\ Failed(c) /\ IsContextErr(c.err) => c.ctxErr # NoErr
            /\ c.pc = "done" /\ IsContextErr(c.err) => c.ctxErr # NoErr
            /\ Failed(c) /\ HoldsCtxErr(c.err) => IsContextErr(c.err)

\* the part of C14 that the providers keep: an error of the caller's ctx is
\* recognised as a cancellation under every wrapping, and a failure that is
\* recognised as a cancellation while the signal has not fired is a timeout
\* of the provider's client
WrappedCancellationRecognised ==
    \A p \in Procs :
        LET c == call[p]
        IN  /\ Failed(c) /\ HoldsCtxErr(c.err) =>
                  IsContextErr(c.err) /\ c.ctxErr # NoErr
            /\ Failed(c) /\ IsContextErr(c.err) /\ c.ctxErr = NoErr =>
                  c.err[Len(c.err)] = ClientTimeout

\* C16: an attempt at the top of the chunk loop with the signal fired reads
\* and writes nothing more and returns the signal's error as a failed
\* download, its output file removed; an attempt that has read the end of
\* the stream returns its file whether or not the signal has fired since.
C16_SignalBeforeEveryRead ==
    [][\A p \in Procs :
          LET c == call[p]
              d == call'[p]
          IN  /\ c.pc = "sh_loop" /\ c.ctxErr # NoErr /\ d # c =>
                    /\ Failed(d)
                    /\ d.err = Errorf("download failed", c.ctxErr)
                    /\ d.chunks = c.chunks /\ d.body = c.body
                    /\ ~Exists(dir', c.filePath)
                    /\ \A i \in Inodes : inode'[i] \in {inode[i], <<>>}
              /\ /\ c.pc \in {"sh_verify", "sh_verified"} /\ c.chunks > 0
                 /\ d # c /\ d.pc \notin {"sh_verify", "sh_verified"}
                 => /\ Succeeded(d)
                    /\ d.path = c.filePath
                    /\ Exists(dir', d.path)]_vars

\* the signal fired after the first chunk was written and before the next
\* read: the attempt has failed with the signal's error and left no file
C16_Witness ==
    \E p \in Procs :
        /\ Failed(call[p])
        /\ call[p].err = <<"download failed", CtxCanceled>>
        /\ call[p].chunks = 1 /\ call[p].body = 1
        /\ ~Exists(dir, ShrutiFilePath(TrackID, call[p].video))

\* the signal fired after the end of the stream was read: success
SignalAfterEndOfStream ==
    \E p \in Procs :
        /\ Succeeded(call[p])
        /\ Current(call[p]) = PlatformShrutiAPI
        /\ call[p].chunks = MaxBody
        /\ call[p].ctxErr # NoErr

ErrEmptyOrMissing == ErrorsNew("downloaded file is empty or missing")

\* C17: an attempt that returns from its verification while the output file
\* is missing or has size zero returns the empty-or-missing error and
\* leaves no file at its path; an attempt that downloaded never returns
\* success for a file of size zero.
C17_VerifyStep ==
    [][\A p \in Procs :
          LET c == call[p]
              d == call'[p]
          IN  /\ /\ c.pc = "sh_verified" /\ d.pc = "ret"
                 /\ IF Exists(dir, c.filePath) THEN Size(dir, inode, c.filePath) = 0
                    ELSE TRUE
                 => /\ Failed(d)
                    /\ d.err = ErrEmptyOrMissing
                    /\ d.path = NoPath
                    /\ ~Exists(dir', c.filePath)
              /\ c.pc = "sh_verified" /\ Succeeded(d) =>
                    /\ d.path = c.filePath
                    /\ Exists(dir', d.path)
                    /\ Size(dir', inode', d.path) > 0]_vars

\* what the verification does keep, with other callers at work too: os.Stat
\* answers for the file as it is at that moment, and Download fails with the
\* empty-or-missing error and removes the path exactly when os.Stat found
\* the file missing or empty
VerifyDecision ==
    [][\A p \in Procs :
          LET c == call[p]
              d == call'[p]
          IN  /\ c.pc = "sh_verify" /\ d.pc = "sh_verified" =>
                    d.statOk = (IF Exists(dir, c.filePath)
                                THEN Size(dir, inode, c.filePath) > 0 ELSE FALSE)
              /\ c.pc = "sh_verified" /\ d.pc = "ret" =>
                    IF c.statOk
                    THEN Succeeded(d) /\ d.path = c.filePath /\ dir' = dir
                    ELSE /\ Failed(d) /\ d.err = ErrEmptyOrMissing
                         /\ ~Exists(dir', c.filePath)]_vars

\* a 200 with an empty body: the attempt has failed at the verification
VerifyEmptyBody ==
    \E p \in Procs :
        /\ Failed(call[p])
        /\ call[p].err = ErrEmptyOrMissing
        /\ call[p].status = StatusOK
        /\ call[p].chunks = 0
        /\ ~Exists(dir, ShrutiFilePath(TrackID, call[p].video))

\* the phase of the ShrutiAPI attempt of a call, "None" when the call is not
\* in one
Phase(c) ==
    CASE c.pc = "invoke" /\ Current(c) = PlatformShrutiAPI -> "CacheCheck"
      [] c.pc \in {"sh_token", "sh_token_wait"} -> "TokenRequest"
      [] c.pc \in {"sh_stream", "sh_stream_wait", "sh_loop", "sh_read"} -> "Streaming"
      [] c.pc \in {"sh_verify", "sh_verified"} -> "Verify"
      [] c.pc = "ret" /\ Current(c) = PlatformShrutiAPI ->
            IF c.err = NoErr THEN "Done" ELSE "Failed"
      [] OTHER -> "None"

PhaseOrder ==
    {<<"CacheCheck", "TokenRequest">>, <<"TokenRequest", "Streaming">>,
     <<"Streaming", "Verify">>, <<"Verify", "Done">>}
Terminal == {"Done", "Failed"}

\* the attempt of d is the attempt of c
SameAttempt(c, d) == d.idx = c.idx /\ d.invoked = c.invoked /\ d.pc # "done"

\* what C18 says besides the order of the phases: a data-plane request is
\* sent only with the non-empty token received in this attempt, the output
\* file is created only after a response with status 200, and a terminal
\* phase is not left for another phase of the attempt
PhaseGuards(p) ==
    LET c == call[p]
        d == call'[p]
    IN  /\ d.via > c.via /\ Phase(c) = "Streaming" =>
              /\ c.token # ""
              /\ c.tokenReqs = 1
              /\ c.tokenResp.token = c.token
              /\ c.tokenResp.status = StatusOK
        /\ Phase(c) # "None" /\ d.fd # 0 /\ c.fd = 0 =>
              /\ c.pc = "sh_stream_wait"
              /\ d.status = StatusOK
              /\ dir'[d.filePath] = d.fd
        /\ Phase(c) # "None" /\ d # c /\ ~(d.fd # 0 /\ c.fd = 0) =>
              \A path \in Paths : dir'[path] \in {dir[path], 0}
        /\ Phase(c) \in Terminal /\ SameAttempt(c, d) =>
              /\ Phase(d) = Phase(c)
              /\ d.path = c.path /\ d.err = c.err

\* C18 as stated: the phase of an attempt changes only to the next phase of
\* CacheCheck, TokenRequest, Streaming, Verify, Done, or to Failed.
C18_PhaseOrderStated ==
    [][\A p \in Procs :
          LET c == call[p]
              d == call'[p]
          IN  /\ Phase(c) # "None" /\ Phase(c) \notin Terminal /\ Phase(d) # Phase(c) =>
                    /\ SameAttempt(c, d) \/ Phase(c) = "CacheCheck"
                    /\ \/ <<Phase(c), Phase(d)>> \in PhaseOrder
                       \/ Phase(d) = "Failed"
              /\ PhaseGuards(p)]_vars

\* C18, amended: the phase of an attempt changes only to the next phase of
\* CacheCheck, TokenRequest, Streaming, Verify, Done, or from CacheCheck
\* straight to Done when the file is already cached, or to Failed.
C18_PhaseOrder ==
    [][\A p \in Procs :
          LET c == call[p]
              d == call'[p]
          IN  /\ Phase(c) # "None" /\ Phase(c) \notin Terminal /\ Phase(d) # Phase(c) =>
                    /\ SameAttempt(c, d) \/ Phase(c) = "CacheCheck"
                    /\ \/ <<Phase(c), Phase(d)>> \in PhaseOrder
                       \/ Phase(d) = "Failed"
                       \/ /\ Phase(c) = "CacheCheck" /\ Phase(d) = "Done"
                          /\ CheckDownloadedFile(dir, TrackID) # {}
                          /\ d.path \in CheckDownloadedFile(dir, TrackID)
                          /\ Sent(d) = 0
              /\ PhaseGuards(p)]_vars

\* an attempt that went through every phase, and the orchestrator has taken
\* its result
C18_Witness ==
    \E p \in Procs :
        /\ call[p].pc = "done"
        /\ call[p].err = NoErr
        /\ Current(call[p]) = PlatformShrutiAPI
        /\ call[p].tokenReqs = 1 /\ call[p].token = "T1"
        /\ call[p].streamReqs = 1 /\ call[p].redirects = 1
        /\ call[p].chunks = MaxBody
        /\ call[p].path = ShrutiFilePath(TrackID, call[p].video)

\* C19: an attempt sends at most one control-plane request and starts at
\* most one data-plane request chain, and no provider is invoked twice in
\* one orchestrator call.
C19_NoRetry ==
    \A p \in Procs :
        LET c == call[p]
        IN  /\ c.tokenReqs <= 1
            /\ c.streamReqs <= 1
            /\ c.via <= RedirectCap
            /\ c.streamReqs = 0 => c.via = 0
            /\ c.idx > 0 /\ Current(c) = PlatformYoutubify =>
                  c.tokenReqs = 0 /\ c.via <= DefaultRedirectCap
            /\ \A i, j \in 1..Len(c.invoked) :
                  c.invoked[i] = c.invoked[j] => i = j
            /\ Len(c.errs) <= Len(c.invoked)

\* both providers were tried once and failed, ShrutiAPI after one token
\* request and one data-plane chain of two requests
C19_Witness ==
    \E p \in Procs :
        /\ call[p].pc = "done"
        /\ call[p].err = ErrAllFailed
        /\ call[p].invoked = <<PlatformYoutubify, PlatformShrutiAPI>>
        /\ call[p].tokenReqs = 1
        /\ call[p].streamReqs = 1
        /\ call[p].via = 2
        /\ call[p].errs[2] = <<"download failed", "request failed", "connection reset">>

\* the positions inside downloadFile's chunk loop
LoopPcs == {"sh_loop", "sh_read"}

\* a step that stays in the chunk loop is the select finding the signal not
\* fired, or a read that returned a chunk without an error, which shortens
\* what is left of the body
LoopVariant(p) ==
    LET c == call[p]
        d == call'[p]
    IN  c.pc \in LoopPcs /\ d.pc \in LoopPcs /\ d.pc # c.pc =>
           \/ c.pc = "sh_loop" /\ c.ctxErr = NoErr /\ d.body = c.body
           \/ c.pc = "sh_read" /\ d.body < c.body /\ d.chunks = c.chunks + 1

\* C20: every provider Download that is invoked returns, and the chunk loop
\* goes round only by reading a further chunk of the body.
C20_Termination ==
    /\ \A p \in Procs : (call[p].pc = "invoke") ~> (call[p].pc = "ret")
    /\ [][\A p \in Procs : LoopVariant(p)]_vars

\* a ShrutiAPI attempt has returned after its loop read a body of MaxBody
\* chunks and then the end of the stream
C20_Witness ==
    \E p \in Procs :
        /\ Succeeded(call[p])
        /\ Current(call[p]) = PlatformShrutiAPI
        /\ call[p].chunks = MaxBody
        /\ call[p].body = 0
        /\ call[p].redirects = 0
        /\ call[p].ctxErr = NoErr

\* the file holds the first n bytes of the body, in order, once each
HoldsPrefix(file, n) ==
    file = IF n = 0 THEN <<>> ELSE <<[from |-> 0, len |-> n]>>

\* C11: while the body of N bytes is streamed the file holds exactly the
\* bytes read so far, in order and once each, however the reads split the
\* body; when end of stream has been read it holds the N bytes, and for
\* N > 0 the Download succeeds with that file.
C11_BodyDelivered ==
    /\ xfer.pc \in {"loop", "verify"} =>
          /\ HoldsPrefix(xfer.file, xfer.total - xfer.left)
          /\ xfer.pc = "verify" => xfer.left = 0
    /\ xfer.pc = "done" /\ xfer.total > 0 =>
          /\ xfer.err = NoErr
          /\ xfer.path = ShrutiFilePath(TrackID, FALSE)
          /\ HoldsPrefix(xfer.file, xfer.total)
          /\ RunsSize(xfer.file) = xfer.total

\* a body of one full buffer and one byte more, read as a full buffer and
\* then the last byte together with end of stream
C11_Witness ==
    /\ xfer.pc = "done"
    /\ xfer.total = BufSize + 1
    /\ xfer.reads = 2
    /\ xfer.lastN = 1
    /\ xfer.err = NoErr
    /\ xfer.file = <<[from |-> 0, len |-> BufSize + 1]>>

\* other splits of C11: a multiple of the buffer read in full buffers with
\* end of stream reported by a read of its own, and a body shorter than the
\* buffer read in short reads
SplitFullBuffers ==
    /\ xfer.pc = "done" /\ xfer.err = NoErr
    /\ xfer.total = MaxFull * BufSize
    /\ xfer.reads = MaxFull + 1 /\ xfer.lastN = 0 /\ xfer.shorts = 0
SplitShortReads ==
    /\ xfer.pc = "done" /\ xfer.err = NoErr
    /\ xfer.total = BufSize - 1
    /\ xfer.shorts = MaxShort /\ xfer.reads = MaxShort + 2 /\ xfer.lastN = 0

\* Scenario A in the specification of the calls: a ShrutiAPI attempt whose
\* response was a 200 with a body that was read to its end has failed only
\* by a read, a write or the signal, and otherwise returns a file that holds
\* the body
ShrutiScenarioA ==
    \A p \in Procs :
        LET c == call[p]
        IN  /\ Returned(c) /\ Current(c) = PlatformShrutiAPI
            /\ c.status = StatusOK /\ c.chunks > 0 /\ c.body = 0
            => IF c.err = NoErr
               THEN /\ c.path = ShrutiFilePath(TrackID, c.video)
                    /\ inode[dir[c.path]] = Body(c.chunks)
               ELSE \/ IsContextErr(c.err)
                    \/ c.err[2] \in {"read error", "write error"}

\* what a capability call must have returned
CapabilityOk(r) ==
    CASE r.op = "IsValid" -> r.ok = FALSE
      [] r.op = "GetTracks" ->
            /\ r.tracks = <<>>
            /\ r.err # NoErr
            /\ ~r.ok
            /\ r.err \in {ErrorsNew("shrutiapi is a download-only platform"),
                          ErrorsNew("Youtubify is a direct download platform")}
      [] r.op = "IsDownloadSupported" -> r.ok = (r.source = PlatformYouTube)
      [] OTHER -> FALSE

\* C15: on both descriptors IsValid answers false for every query,
\* GetTracks returns no tracks and a download-only error for every query,
\* IsDownloadSupported answers true exactly for the YouTube source, and a
\* call of any of them changes nothing but the record of its result.
C15_DownloadOnly ==
    [][/\ \A i \in 1..Len(probe') : CapabilityOk(probe'[i])
       /\ probe' # probe =>
             /\ SubSeq(probe', 1, Len(probe)) = probe
             /\ UNCHANGED <<registry, lookup, dir, inode, call, firstPath, xfer>>]_vars

\* xyz was asked whether a URL is its own, ShrutiAPI whether it downloads
\* a Spotify track
C15_Witness ==
    /\ Len(probe) = 2
    /\ probe[1].op = "IsValid" /\ probe[1].platform = PlatformYoutubify
    /\ probe[1].query = "https://youtu.be/abc123" /\ ~probe[1].ok
    /\ probe[2].op = "IsDownloadSupported" /\ probe[2].platform = PlatformShrutiAPI
    /\ probe[2].source = "Spotify" /\ ~probe[2].ok

\* caller q is in an attempt that has its output file open for writing
Writing(q) == call[q].fd # 0
\* caller q holds the path of a file as the successful result of a Download
Holds(q) == call[q].pc \in {"ret", "done"} /\ call[q].err = NoErr

\* a step of caller p neither opens with os.Create the path of the file that
\* caller q is writing, nor removes or replaces its directory entry
LeavesWrittenFile(p, q) ==
    Writing(q) /\ call'[p] # call[p] =>
        /\ ~(call[p].fd = 0 /\ call'[p].fd # 0 /\ call'[p].filePath = call[q].filePath)
        /\ dir'[call[q].filePath] = dir[call[q].filePath]

\* a step of caller p that ends an attempt in failure leaves in place the
\* file that caller q holds as its result
CleanupLeavesResult(p, q) ==
    /\ Holds(q) /\ Exists(dir, call[q].path)
    /\ call'[p] # call[p] /\ Failed(call'[p])
    => dir'[call[q].path] = dir[call[q].path]

\* C13: with two calls for the same track running at once, no step of one
\* creates, truncates or removes the file the other is writing, and no
\* failing attempt removes the file the other has returned as its result.
C13_ExclusiveOwnership ==
    [][\A p, q \in Procs :
          p # q => LeavesWrittenFile(p, q) /\ CleanupLeavesResult(p, q)]_vars

\* the two parts of C13 on their own
NoTruncationWhileWriting ==
    [][\A p, q \in Procs : p # q => LeavesWrittenFile(p, q)]_vars
NoCleanupOfResult ==
    [][\A p, q \in Procs : p # q => CleanupLeavesResult(p, q)]_vars

\* the other case of C17, which takes a second caller: the body was read
\* and written, and at the verification the file was gone or emptied
VerifyFileMissing ==
    \E p \in Procs :
        /\ Failed(call[p])
        /\ call[p].err = ErrEmptyOrMissing
        /\ call[p].status = StatusOK
        /\ call[p].chunks > 0

\* two callers through ShrutiAPI: one has failed its verification after
\* writing its body, and the file the other has returned is gone
VerifyRace ==
    \E p, q \in Procs :
        /\ p # q
        /\ Failed(call[p]) /\ call[p].err = ErrEmptyOrMissing /\ call[p].chunks > 0
        /\ Succeeded(call[q]) /\ call[q].tokenReqs = 1 /\ call[q].chunks > 0
        /\ ~Exists(dir, call[q].path)

=============================================================================
